---- MODULE Spec2Model ----
(***************************************************************************)
(* Model of python/visa_adapter.py: a command-line bridge that reads       *)
(* command lines from standard input and forwards each one to a VISA       *)
(* instrument as a query (the line contains '?') or as a write.            *)
(*                                                                         *)
(* Text is a sequence of one-character strings; '/' on its own also stands *)
(* for the ordinary characters of a command.  The instrument library       *)
(* (pyvisa) is a black box: each of its calls either returns or raises,    *)
(* chosen nondeterministically, and every call is appended to `calls`.     *)
(* Standard output and standard error are the sequences of lines printed;  *)
(* both streams are taken to accept every write (print and flush on them   *)
(* do not raise).                                                          *)
(***************************************************************************)
EXTENDS Integers, Sequences, FiniteSets, TLC

VARIABLES
    pc,          \* position of the process in the script
    argv,        \* command-line arguments the process was started with
    stdin,       \* the text supplied on standard input
    stdinRead,   \* TRUE once readlines() has consumed standard input
    args,        \* result of parser.parse_args()
    inst,        \* the connection handle: "none", "open" or "closed"
    lines,       \* result of sys.stdin.readlines()
    i,           \* index in `lines` of the next line of the for loop
    calls,       \* calls made on the instrument library, in order
    stdout,      \* lines printed to standard output
    stderr,      \* lines printed to standard error
    exitStatus   \* exit status of the process, None while it runs

vars == <<pc, argv, stdin, stdinRead, args, inst, lines, i, calls, stdout, stderr, exitStatus>>

None == "none"

\* ------------------------------------------------------------------ bounds
\* Longest standard input, in characters (newlines included).
MaxChars == 5

\* ------------------------------------------------------------------ inputs
Alphabet == {" ", "\n", "#", "/", "?"}

Texts == UNION {[1..n -> Alphabet] : n \in 0..MaxChars}

Argvs == { <<>>,
           <<"GPIB0::1">>,
           <<"GPIB0::1", "--timeout", "250">>,
           <<"GPIB0::1", "--timeout", "abc">>,
           <<"--timeout", "250">> }

\* Responses the instrument may give to a query.
Responses == { <<"a">>, <<" ", "a", "\n">>, <<"#", " ", "a", "\n">> }

\* ------------------------------------------------------- string operations
\* Characters str.strip() removes, among those of Alphabet.
Whitespace == {" ", "\n"}

RECURSIVE LStrip(_)
LStrip(s) ==
    IF s # <<>> /\ Head(s) \in Whitespace THEN LStrip(Tail(s)) ELSE s

RECURSIVE RStrip(_)
RStrip(s) ==
    IF s # <<>> /\ s[Len(s)] \in Whitespace
    THEN RStrip(SubSeq(s, 1, Len(s) - 1))
    ELSE s

\* str.strip()
Strip(s) == RStrip(LStrip(s))

\* str.startswith(p)
StartsWith(s, p) == Len(s) >= Len(p) /\ SubSeq(s, 1, Len(p)) = p

\* sys.stdin.readlines(): the text cut after every newline, each line
\* keeping its newline; a last line without newline is kept when non-empty.
RECURSIVE SplitKeepEnds(_, _)
SplitKeepEnds(text, cur) ==
    IF text = <<>>
    THEN IF cur = <<>> THEN <<>> ELSE <<cur>>
    ELSE IF Head(text) = "\n"
         THEN <<Append(cur, "\n")>> \o SplitKeepEnds(Tail(text), <<>>)
         ELSE SplitKeepEnds(Tail(text), Append(cur, Head(text)))

ReadLines(text) == SplitKeepEnds(text, <<>>)

\* Variant of IsSkipped that knows only the '#' comment marker.
IsSkippedHashOnly(line) ==
    \/ line = <<>>
    \/ StartsWith(line, <<"#">>)

\* `not line or line.startswith('#') or line.startswith('//')`
IsSkipped(line) ==
    \/ line = <<>>
    \/ StartsWith(line, <<"#">>)
    \/ StartsWith(line, <<"/", "/">>)

\* Variant of IsQuery that looks for '?' at the end of the line only.
IsQueryEndsWith(line) == line # <<>> /\ line[Len(line)] = "?"

\* `'?' in line`
IsQuery(line) == \E k \in DOMAIN line : line[k] = "?"

\* ------------------------------------------------------ argument parsing
DefaultTimeout == 5000

\* int() of a --timeout value; values outside the domain are not integers.
IntValue == ("250" :> 250)

RECURSIVE ParseFrom(_, _)
ParseFrom(av, acc) ==
    IF av = <<>> THEN acc
    ELSE IF Head(av) = "--timeout"
         THEN IF Len(av) < 2 \/ av[2] \notin DOMAIN IntValue
              THEN [acc EXCEPT !.ok = FALSE]
              ELSE ParseFrom(SubSeq(av, 3, Len(av)),
                             [acc EXCEPT !.timeout = IntValue[av[2]]])
         ELSE IF acc.resource = None
              THEN ParseFrom(Tail(av), [acc EXCEPT !.resource = Head(av)])
              ELSE [acc EXCEPT !.ok = FALSE]

\* Variant of ParseArgs that drops the --timeout value.
ParseArgsDefaultTimeout(av) ==
    LET r == ParseFrom(av, [ok |-> TRUE, resource |-> None, timeout |-> DefaultTimeout])
    IN  IF r.resource = None
        THEN [r EXCEPT !.ok = FALSE]
        ELSE [r EXCEPT !.timeout = DefaultTimeout]

\* parser.parse_args(): one required positional `resource`, the option
\* --timeout of type int with default 5000.
ParseArgs(av) ==
    LET r == ParseFrom(av, [ok |-> TRUE, resource |-> None, timeout |-> DefaultTimeout])
    IN  IF r.resource = None THEN [r EXCEPT !.ok = FALSE] ELSE r

\* Exit status of argparse's parser.error().
UsageExitStatus == 2

\* ---------------------------------------------------------------- messages
ImportErrorLine == <<"Error: 'pyvisa' module not found.">>
UsageLines == << <<"usage">>, <<"error">> >>
FatalLine(e) == <<"Error: ", e>>
QueryErrorLine(line, e) == <<"Error querying '">> \o line \o <<"': ", e>>
WriteErrorLine(line, e) == <<"Error writing '">> \o line \o <<"': ", e>>

\* One call on the instrument library: its argument, whether it returned
\* (ok) or raised, and the value it returned.
Call(op, arg, ok, ret) == [op |-> op, arg |-> arg, ok |-> ok, ret |-> ret]

\* ------------------------------------------------------------------- state
Init ==
    /\ pc = "import"
    /\ argv \in Argvs
    /\ stdin \in Texts
    /\ stdinRead = FALSE
    /\ args = None
    /\ inst = None
    /\ lines = <<>>
    /\ i = 1
    /\ calls = <<>>
    /\ stdout = <<>>
    /\ stderr = <<>>
    /\ exitStatus = None

\* sys.exit(status)
Exit(status) ==
    /\ pc' = "done"
    /\ exitStatus' = status

\* Variant of Fatal without sys.exit(1): main() returns after printing.
FatalNoExit(e) ==
    /\ stderr' = Append(stderr, FatalLine(e))
    /\ Exit(0)

\* The outer handler: `except Exception as e`, print to stderr, sys.exit(1).
Fatal(e) ==
    /\ stderr' = Append(stderr, FatalLine(e))
    /\ Exit(1)

\* `import pyvisa`, guarded by `except ImportError`.
ImportPyvisa ==
    /\ pc = "import"
    /\ \/ /\ pc' = "parse"
          /\ UNCHANGED <<stderr, exitStatus>>
       \/ /\ stderr' = Append(stderr, ImportErrorLine)
          /\ Exit(1)
    /\ UNCHANGED <<argv, stdin, stdinRead, args, inst, lines, i, calls, stdout>>

\* args = parser.parse_args()
ParseArgsStep ==
    /\ pc = "parse"
    /\ LET r == ParseArgs(argv)
       IN  \/ /\ r.ok
              /\ args' = r
              /\ pc' = "rm"
              /\ UNCHANGED <<stderr, exitStatus>>
           \/ /\ ~r.ok
              /\ stderr' = stderr \o UsageLines
              /\ Exit(UsageExitStatus)
              /\ UNCHANGED args
    /\ UNCHANGED <<argv, stdin, stdinRead, inst, lines, i, calls, stdout>>

\* rm = pyvisa.ResourceManager()
CreateResourceManager ==
    /\ pc = "rm"
    /\ \/ /\ pc' = "open"
          /\ UNCHANGED <<stderr, exitStatus>>
       \/ Fatal("no backend")
    /\ UNCHANGED <<argv, stdin, stdinRead, args, inst, lines, i, calls, stdout>>

\* inst = rm.open_resource(args.resource)
OpenResource ==
    /\ pc = "open"
    /\ \/ /\ calls' = Append(calls, Call("open", args.resource, TRUE, <<>>))
          /\ inst' = "open"
          /\ pc' = "timeout"
          /\ UNCHANGED <<stderr, exitStatus>>
       \/ /\ calls' = Append(calls, Call("open", args.resource, FALSE, <<>>))
          /\ Fatal("open failed")
          /\ UNCHANGED inst
    /\ UNCHANGED <<argv, stdin, stdinRead, args, lines, i, stdout>>

\* Variant of SetTimeout that goes on when the assignment raises.
SetTimeoutIgnoresFailure ==
    /\ pc = "timeout"
    /\ \E ok \in BOOLEAN :
          calls' = Append(calls, [op |-> "timeout", arg |-> args.timeout,
                                  ok |-> ok, ret |-> <<>>])
    /\ pc' = "read"
    /\ UNCHANGED <<argv, stdin, stdinRead, args, inst, lines, i, stdout, stderr, exitStatus>>

\* inst.timeout = args.timeout
SetTimeout ==
    /\ pc = "timeout"
    /\ \/ /\ calls' = Append(calls, Call("timeout", args.timeout, TRUE, <<>>))
          /\ pc' = "read"
          /\ UNCHANGED <<stderr, exitStatus>>
       \/ /\ calls' = Append(calls, Call("timeout", args.timeout, FALSE, <<>>))
          /\ Fatal("timeout rejected")
    /\ UNCHANGED <<argv, stdin, stdinRead, args, inst, lines, i, stdout>>

\* lines = sys.stdin.readlines()
ReadStdin ==
    /\ pc = "read"
    /\ \/ /\ lines' = ReadLines(stdin)
          /\ stdinRead' = TRUE
          /\ i' = 1
          /\ pc' = "loop"
          /\ UNCHANGED <<stderr, exitStatus>>
       \/ /\ Fatal("stdin unreadable")
          /\ UNCHANGED <<lines, stdinRead, i>>
    /\ UNCHANGED <<argv, stdin, args, inst, calls, stdout>>

\* The `continue` of a blank or comment line.
SkipLine ==
    /\ pc = "loop"
    /\ i <= Len(lines)
    /\ IsSkipped(Strip(lines[i]))
    /\ i' = i + 1
    /\ UNCHANGED <<pc, argv, stdin, stdinRead, args, inst, lines, calls, stdout, stderr, exitStatus>>

\* inst.query(line) returned r: print(response.strip())
QueryOk(line, r) ==
    /\ calls' = Append(calls, Call("query", line, TRUE, r))
    /\ stdout' = Append(stdout, Strip(r))
    /\ i' = i + 1
    /\ UNCHANGED <<pc, stderr, exitStatus>>

\* Variant of QueryFail without the inner handler: the exception reaches
\* the outer one.
QueryFailAborts(line, e) ==
    /\ calls' = Append(calls, [op |-> "query", arg |-> line, ok |-> FALSE, ret |-> <<>>])
    /\ stderr' = Append(stderr, <<"Error: ", e>>)
    /\ pc' = "done"
    /\ exitStatus' = 1
    /\ UNCHANGED <<i, stdout>>

\* Variant of QueryFail that sends a failed query a second time.
QueryFailRetries(line, e) ==
    /\ calls' = calls \o << [op |-> "query", arg |-> line, ok |-> FALSE, ret |-> <<>>],
                            [op |-> "query", arg |-> line, ok |-> FALSE, ret |-> <<>>] >>
    /\ stderr' = Append(stderr, <<"Error querying '">> \o line \o <<"': ", e>>)
    /\ i' = i + 1
    /\ UNCHANGED <<pc, stdout, exitStatus>>

\* inst.query(line) raised e: the inner handler prints and the loop goes on.
QueryFail(line, e) ==
    /\ calls' = Append(calls, Call("query", line, FALSE, <<>>))
    /\ stderr' = Append(stderr, QueryErrorLine(line, e))
    /\ i' = i + 1
    /\ UNCHANGED <<pc, stdout, exitStatus>>

\* The query branch of the loop body.
QueryLine ==
    /\ pc = "loop"
    /\ i <= Len(lines)
    /\ LET line == Strip(lines[i])
       IN  /\ ~IsSkipped(line)
           /\ IsQuery(line)
           /\ \/ \E r \in Responses : QueryOk(line, r)
              \/ QueryFail(line, "timeout")
    /\ UNCHANGED <<argv, stdin, stdinRead, args, inst, lines>>

\* Variant of WriteOk that prints the command it sent.
WriteOkEchoes(line) ==
    /\ calls' = Append(calls, [op |-> "write", arg |-> line, ok |-> TRUE, ret |-> <<>>])
    /\ stdout' = Append(stdout, line)
    /\ i' = i + 1
    /\ UNCHANGED <<pc, stderr, exitStatus>>

\* inst.write(line) returned.
WriteOk(line) ==
    /\ calls' = Append(calls, Call("write", line, TRUE, <<>>))
    /\ i' = i + 1
    /\ UNCHANGED <<pc, stdout, stderr, exitStatus>>

\* Variant of WriteFail without the inner handler: the exception reaches
\* the outer one.
WriteFailAborts(line, e) ==
    /\ calls' = Append(calls, [op |-> "write", arg |-> line, ok |-> FALSE, ret |-> <<>>])
    /\ stderr' = Append(stderr, <<"Error: ", e>>)
    /\ pc' = "done"
    /\ exitStatus' = 1
    /\ UNCHANGED <<i, stdout>>

\* inst.write(line) raised e: the inner handler prints and the loop goes on.
WriteFail(line, e) ==
    /\ calls' = Append(calls, Call("write", line, FALSE, <<>>))
    /\ stderr' = Append(stderr, WriteErrorLine(line, e))
    /\ i' = i + 1
    /\ UNCHANGED <<pc, stdout, exitStatus>>

\* The write branch of the loop body.
WriteLine ==
    /\ pc = "loop"
    /\ i <= Len(lines)
    /\ LET line == Strip(lines[i])
       IN  /\ ~IsSkipped(line)
           /\ ~IsQuery(line)
           /\ \/ WriteOk(line)
              \/ WriteFail(line, "timeout")
    /\ UNCHANGED <<argv, stdin, stdinRead, args, inst, lines>>

\* inst.close() after the loop, then the normal end of main().
CloseInst ==
    /\ pc = "loop"
    /\ i > Len(lines)
    /\ \/ /\ calls' = Append(calls, Call("close", <<>>, TRUE, <<>>))
          /\ inst' = "closed"
          /\ Exit(0)
          /\ UNCHANGED stderr
       \/ /\ calls' = Append(calls, Call("close", <<>>, FALSE, <<>>))
          /\ Fatal("close failed")
          /\ UNCHANGED inst
    /\ UNCHANGED <<argv, stdin, stdinRead, args, lines, i, stdout>>

Next ==
    \/ ImportPyvisa
    \/ ParseArgsStep
    \/ CreateResourceManager
    \/ OpenResource
    \/ SetTimeout
    \/ ReadStdin
    \/ SkipLine
    \/ QueryLine
    \/ WriteLine
    \/ CloseInst

Spec == Init /\ [][Next]_vars

\* ------------------------------------------- what the input asks for
\* These definitions state the expected behaviour from the input text alone;
\* they use none of the operators above.

Min(S) == CHOOSE x \in S : \A y \in S : x <= y
Max(S) == CHOOSE x \in S : \A y \in S : x >= y

\* s without its leading and trailing blanks and newlines.
Trimmed(s) ==
    LET solid == {k \in DOMAIN s : s[k] # " " /\ s[k] # "\n"}
    IN  IF solid = {} THEN <<>> ELSE SubSeq(s, Min(solid), Max(solid))

HasQuestionMark(s) == "?" \in {s[k] : k \in DOMAIN s}

IsCommentOrBlank(t) ==
    \/ Len(t) = 0
    \/ t[1] = "#"
    \/ (Len(t) >= 2 /\ t[1] = "/" /\ t[2] = "/")

\* The lines of a newline-delimited text, in order.
InputLines(text) ==
    LET starts == {s \in 1..Len(text) : s = 1 \/ text[s - 1] = "\n"}
        EndOf(s) == Min({k \in s..Len(text) : text[k] = "\n"} \cup {Len(text)})
        StartNo(j) == CHOOSE s \in starts : Cardinality({t \in starts : t < s}) = j - 1
    IN  [j \in 1..Cardinality(starts) |-> SubSeq(text, StartNo(j), EndOf(StartNo(j)))]

\* The trimmed non-comment, non-blank lines of a text, in order.
Commands(text) ==
    LET ls == InputLines(text)
        ts == [j \in DOMAIN ls |-> Trimmed(ls[j])]
    IN  SelectSeq(ts, LAMBDA t : ~IsCommentOrBlank(t))

\* The timeout a command line asks for.
RequestedTimeout(av) ==
    IF \E k \in DOMAIN av : av[k] = "--timeout"
    THEN LET k == CHOOSE k \in DOMAIN av : av[k] = "--timeout"
         IN  IF av[k + 1] = "250" THEN 250 ELSE -1
    ELSE 5000

\* Command lines with a resource and, if any, an integer --timeout.
ValidArgvs == { <<"GPIB0::1">>, <<"GPIB0::1", "--timeout", "250">> }

\* m contains t as a contiguous part.
Contains(m, t) ==
    \E a \in 1..Len(m) :
        a + Len(t) - 1 <= Len(m) /\ SubSeq(m, a, a + Len(t) - 1) = t

\* ------------------------------------------------------- views of a run
IsDispatch(c) == c.op = "query" \/ c.op = "write"

\* The query and write calls made so far, in order.
Dispatched == SelectSeq(calls, IsDispatch)

FailedDispatches == SelectSeq(Dispatched, LAMBDA c : ~c.ok)

SuccessfulQueries == SelectSeq(calls, LAMBDA c : c.op = "query" /\ c.ok)

\* The per-line diagnostics on standard error, in order.
LineDiagnostics ==
    SelectSeq(stderr, LAMBDA m : m[1] = "Error querying '" \/ m[1] = "Error writing '")

CallsOf(op) == {k \in DOMAIN calls : calls[k].op = op}
OkCallsOf(op) == {k \in CallsOf(op) : calls[k].ok}
FailedCallsOf(op) == {k \in CallsOf(op) : ~calls[k].ok}

\* The for loop has run to its end.
LoopFinished == CallsOf("close") # {}

\* ------------------------------------------------------------------ claims

\* C1: a failing query or write call produces exactly one standard-error
\* diagnostic containing that line's trimmed text, and the loop does not stop:
\* every run that read its input dispatches every command of the input.
C1_FailureIsolation ==
    /\ Len(LineDiagnostics) = Len(FailedDispatches)
    /\ \A k \in 1..Len(FailedDispatches) :
          /\ k <= Len(LineDiagnostics)
          /\ Contains(LineDiagnostics[k], FailedDispatches[k].arg)
    /\ Len(FailedDispatches) > 0 => pc \in {"loop", "done"}
    /\ (pc = "done" /\ stdinRead) =>
          /\ LoopFinished
          /\ Len(Dispatched) = Len(Commands(stdin))

\* A run that ended after a failed call followed by a later dispatched line.
C1_Witness ==
    /\ pc = "done"
    /\ \E k \in 1..Len(Dispatched) : ~Dispatched[k].ok /\ k < Len(Dispatched)

\* C2: in every run in which open_resource succeeded, close() is called
\* exactly once before the process terminates, on the fatal path too.
C2_ClosedOnEveryExit ==
    (pc = "done" /\ OkCallsOf("open") # {}) => Cardinality(CallsOf("close")) = 1

\* C3: every command containing '?' gets exactly one query call with its
\* trimmed text; standard output is exactly the trimmed responses of the
\* successful queries, in input order.
C3_QueryDispatchAndOutput ==
    LET exp == Commands(stdin)
    IN  /\ Len(Dispatched) <= Len(exp)
        /\ \A k \in 1..Len(Dispatched) :
              HasQuestionMark(exp[k]) =>
                  Dispatched[k].op = "query" /\ Dispatched[k].arg = exp[k]
        /\ LoopFinished => Len(Dispatched) = Len(exp)
        /\ Len(stdout) = Len(SuccessfulQueries)
        /\ \A k \in 1..Len(stdout) :
              /\ k <= Len(SuccessfulQueries)
              /\ stdout[k] = Trimmed(SuccessfulQueries[k].ret)

\* A finished run with two successful queries whose responses differ and
\* needed trimming, and a query command that does not end in '?'.
C3_Witness ==
    /\ pc = "done"
    /\ Len(stdout) = 2
    /\ stdout[1] # stdout[2]
    /\ SuccessfulQueries[1].ret # stdout[1]
    /\ \E k \in 1..Len(Dispatched) :
          Dispatched[k].op = "query" /\ Dispatched[k].arg[Len(Dispatched[k].arg)] # "?"

\* C4: every command without '?' gets exactly one write call with its trimmed
\* text and no query call, and the step that makes a write call, failed or
\* not, adds nothing to standard output.
C4_WriteDispatchState ==
    LET exp == Commands(stdin)
    IN  /\ Len(Dispatched) <= Len(exp)
        /\ \A k \in 1..Len(Dispatched) :
              ~HasQuestionMark(exp[k]) =>
                  Dispatched[k].op = "write" /\ Dispatched[k].arg = exp[k]
        /\ LoopFinished => Len(Dispatched) = Len(exp)

C4_WriteDispatchStep ==
    (/\ Len(calls') = Len(calls) + 1
     /\ calls'[Len(calls')].op = "write") => stdout' = stdout

C4_WriteDispatch == [](C4_WriteDispatchState) /\ [][C4_WriteDispatchStep]_vars

\* A finished run with a failed and a successful write.
C4_Witness ==
    /\ pc = "done"
    /\ \E k \in FailedCallsOf("write") : TRUE
    /\ \E k \in OkCallsOf("write") : TRUE

\* C5: the loop step for a line that is blank or a comment after trimming
\* makes no call and prints nothing, also when the line contains '?'.
C5_SkippedStep ==
    (/\ pc = "loop"
     /\ i <= Len(InputLines(stdin))
     /\ IsCommentOrBlank(Trimmed(InputLines(stdin)[i])))
    => (calls' = calls /\ stdout' = stdout /\ stderr' = stderr /\ pc' = "loop" /\ i' = i + 1)

C5_SkippedLinesNoEffect == [][C5_SkippedStep]_vars

\* The loop has passed a '//' comment and a '#' comment, one containing '?'.
C5_Witness ==
    /\ pc = "loop"
    /\ i = 3
    /\ Len(InputLines(stdin)) >= 2
    /\ Trimmed(InputLines(stdin)[1]) = <<"/", "/">>
    /\ Len(Trimmed(InputLines(stdin)[2])) > 0
    /\ Trimmed(InputLines(stdin)[2])[1] = "#"
    /\ HasQuestionMark(InputLines(stdin)[2])
    /\ calls = SelectSeq(calls, LAMBDA c : ~IsDispatch(c))
    /\ stdout = <<>>
    /\ stderr = <<>>

\* C6: when opening the resource or setting the timeout fails, the run ends
\* with exactly one standard-error line and status 1, without any query or
\* write call and with nothing on standard output.
C6_FatalStartup ==
    (FailedCallsOf("open") # {} \/ FailedCallsOf("timeout") # {}) =>
        /\ pc = "done"
        /\ exitStatus = 1
        /\ Len(stderr) = 1
        /\ Dispatched = <<>>
        /\ stdout = <<>>

\* Setting the timeout failed and standard input holds a command.
C6_Witness ==
    /\ FailedCallsOf("timeout") # {}
    /\ Len(Commands(stdin)) > 0

\* C7: a run in which the connection opens, the timeout is set and standard
\* input is read reaches close(), and exits 0 exactly when close() succeeds,
\* whichever query and write calls failed.
C7_ExitIgnoresLineFailures ==
    (pc = "done" /\ OkCallsOf("timeout") # {} /\ stdinRead) =>
        /\ LoopFinished
        /\ exitStatus = (IF OkCallsOf("close") # {} THEN 0 ELSE 1)

\* A run that exits 0 although both of its calls, a query and a write, failed.
C7_Witness ==
    /\ pc = "done"
    /\ exitStatus = 0
    /\ FailedCallsOf("query") # {}
    /\ FailedCallsOf("write") # {}
    /\ Len(FailedDispatches) = Len(Dispatched)

\* C8 as stated: every terminating run exits with status 0 or 1.
C8_ExitZeroOrOne == pc = "done" => exitStatus \in {0, 1}

\* C8 amended: the exit status is 0 on normal completion, 2 when parsing the
\* command line fails, and 1 at every other fatal stage.
C8_ExitStatusByStage ==
    pc = "done" =>
        exitStatus =
            IF stderr # <<>> /\ stderr[1] = ImportErrorLine THEN 1
            ELSE IF argv \notin ValidArgvs THEN 2
            ELSE IF OkCallsOf("close") # {} THEN 0
            ELSE 1

\* A run that stopped at command-line parsing.
C8_Witness == pc = "done" /\ argv \notin ValidArgvs /\ stderr = UsageLines

\* C9: the resource is opened at most once; the timeout asked for on the
\* command line is set right after the open succeeds; every query and write
\* call comes after the timeout is set and before close().
C9_CallOrdering ==
    /\ Cardinality(CallsOf("open")) <= 1
    /\ \A k \in CallsOf("timeout") :
          /\ k = 2
          /\ calls[1].op = "open" /\ calls[1].ok
          /\ calls[k].arg = RequestedTimeout(argv)
    /\ \A k \in DOMAIN calls :
          IsDispatch(calls[k]) =>
              /\ \E j \in OkCallsOf("timeout") : j < k
              /\ \A j \in CallsOf("close") : k < j
    /\ \A k \in CallsOf("close") : k = Len(calls)

\* A closed run started with --timeout 250 that made a query or write call.
C9_Witness ==
    /\ pc = "done"
    /\ RequestedTimeout(argv) = 250
    /\ OkCallsOf("close") # {}
    /\ Len(Dispatched) > 0

\* C10: the query and write calls, in the order issued, carry exactly the
\* trimmed non-comment, non-blank input lines in input order, one call per
\* line whether it fails or not, and none is issued before the whole of
\* standard input is read.
C10_CallsMirrorInput ==
    LET exp == Commands(stdin)
    IN  /\ Len(Dispatched) <= Len(exp)
        /\ \A k \in 1..Len(Dispatched) : Dispatched[k].arg = exp[k]
        /\ (LoopFinished \/ (pc = "loop" /\ i > Len(lines))) => Len(Dispatched) = Len(exp)
        /\ Len(Dispatched) > 0 => stdinRead

\* A finished run over three lines: a failed call, a skipped line, a call.
C10_Witness ==
    /\ pc = "done"
    /\ Len(InputLines(stdin)) = 3
    /\ Len(Dispatched) = 2
    /\ ~Dispatched[1].ok
    /\ IsCommentOrBlank(Trimmed(InputLines(stdin)[2]))

====
